---- MODULE Spec2Model ----
(***************************************************************************)
(* Model of the go-astiencoder runtime core: the frame pool and the frame  *)
(* dispatcher (libav/frame.go), the forwarder built on them, the muxer     *)
(* start body and the workflow pool.                                       *)
(***************************************************************************)
EXTENDS Integers, Sequences, FiniteSets, TLC

\* ---------------------------------------------------------------- bounds
\* frames handed to Forwarder.HandleFrame by the upstream caller
MaxFrames == 2
\* buffers a direct pool user holds at a time
MaxOwn == 2
\* times the muxer's Start body is run
MaxRuns == 2
\* packets handed to the muxer's HandlePkt
MaxPkts == 3
\* workflows created and added to the workflow pool
MaxWorkflows == 2
\* packets of the demuxer's finite input
MaxInput == 2
\* seeks back to the first packet in loop mode
MaxSeeks == 1
\* times the clock is observed to have advanced
MaxTicks == 2
\* denominator of nanosecondRational
NanosecondDen == 1000000000

\* ------------------------------------------------------------ identities
\* the two dispatchers of the graph and their pools: the forwarder's frame
\* dispatcher and the demuxer's packet dispatcher
Disp == {"fwd", "dmx"}
Sinks == {"S1", "S2"}
\* handlers that can be registered in a dispatcher, keyed by node name
HandlersOf(d) == IF d = "fwd" THEN Sinks ELSE {"F"}
\* goroutines that use a pool directly through get() and put()
Users == {"u1", "u2"}
\* every handler, and the edges producer -> handler that can be connected
AllHandlers == UNION {HandlersOf(d) : d \in Disp}
Edges == {e \in Disp \X AllHandlers : e[2] \in HandlersOf(e[1])}
\* the nodes whose pause gate is modelled: the muxer and the demuxer
PausableNodes == {"mux", "dmx"}
\* the two calls that goroutines make on an edge at the same time
ConnCalls == {"Connect", "Disconnect"}
\* workflow names and the goroutines that call the workflow pool
Names == {"a", "b"}
Callers == {"c1", "c2"}

VARIABLES
    poolP,       \* framePool.p: the free list, per pool
    poolAlloc,   \* number of avutil.AvFrameAlloc calls, per pool (buffers are 1..poolAlloc)
    bufRef,      \* what each pool buffer references (0: unreferenced), per pool
    closerCbs,   \* astikit.Closer: the callbacks added so far, in order
    held,        \* per pool and buffer: gets minus puts (who is out of the pool)
    reused,      \* per pool: get() has handed out a buffer of the free list
    hs,          \* frameDispatcher.hs: registered handler names, per dispatcher
    wg,          \* frameDispatcher.wg counter, per dispatcher
    dpc,         \* where the running dispatch() call is, per dispatcher
    dsnap,       \* dispatch(): handlers of the snapshot not yet looped over
    dsrc,        \* dispatch(): the producer's buffer f
    ndisp,       \* number of dispatch() calls made so far, per dispatcher
    tasks,       \* goroutines spawned by dispatch(), per dispatcher
    dhs,         \* d.hs as it was when the running or last dispatch() call copied it
    dfail,       \* dispatch(): handlers of that call whose AvFrameRef failed
    recv,        \* per dispatcher and handler: dispatch calls whose buffer it was handed
    rdata,       \* per dispatcher and handler: what the buffers it was handed referenced
    fs,          \* astikit.Chan.fs: closures queued by HandleFrame
    fpc,         \* where the forwarder's Start body / chan consumer is
    nframes,     \* frames the upstream caller has handed over
    rootCancelled, \* the workflow's root context is cancelled
    closed,      \* the Closer has run
    freed,       \* per pool and buffer: AvFrameFree calls
    own,         \* buffers each direct pool user holds
    mpc,         \* where the muxer's Start body is
    mruns,       \* number of runs of the muxer's Start body so far
    onceDone,    \* Muxer.o (sync.Once) has run its function
    hdrRet,      \* what AvformatWriteHeader returned (0 before it is called)
    headers,     \* number of AvformatWriteHeader calls
    mq,          \* Muxer.q: packets sent and not yet written
    npkts,       \* packets handed to HandlePkt so far
    written,     \* packets AvInterleavedWriteFrame wrote
    trailers,    \* number of AvWriteTrailer calls
    ws,          \* WorkflowPool.ws: name -> workflow (0: no entry)
    wpm,         \* WorkflowPool.m: the caller that holds the mutex, or "none"
    wpc,         \* per caller: the workflow pool call it is in
    wret,        \* per caller: what its last call returned
    lastAdded,   \* per name: workflow of the last AddWorkflow that took effect
    wnames,      \* name of each workflow created so far (workflows are 1..Len)
    cpc,         \* per edge: where the Connect or Disconnect call on it is
    clast,       \* per edge: the call on it that returned last
    children,    \* per producer: the handlers it records as neighbours
    parents,     \* per handler: the producers it records as neighbours
    ea, eb,      \* the native return codes two errors are built from
    isDone,      \* NewAvError(ea).Is(NewAvError(eb)) has been called
    isRes,       \* what it returned
    dmxpc,       \* where the demuxer's Start body is
    dpkt,        \* readFrame: the pool buffer pkt (0: none)
    dinput,      \* the packets of the demuxer's input, in order
    dpos,        \* packets of the input read since the start or the last seek
    dloop,       \* Demuxer.loop
    demul,       \* Demuxer.emulateRate
    loopFirstPkt, \* Demuxer.loopFirstPkt: the input packet recorded (0: nil)
    demitted,    \* errors the demuxer emitted
    ddisp,       \* dispatch calls of readFrame: packet, time and emit deadline
    dseeks,      \* number of AvSeekFrame calls
    nextAt,      \* per stream: emulateRateNextAt in ns (0: the zero time)
    dwake,       \* readFrame: when the running sleep is over
    dread,       \* readFrame: when the packet that waits in the sleep was read
    now,         \* the clock, in ns
    nticks,      \* times the clock advanced
    nodeCancelled, \* the demuxer's child context was cancelled by its own Stop()
    mpkts,       \* the packets handed to the muxer, by number: the packet objects
    mpayload,    \* per packet: the descriptor's time base, the handler's stream,
                 \* and the packet as it was when HandlePkt was called
    mlog,        \* the packets the muxer's consumer handled
    merrs,       \* errors emitted for failed writes
    mrestamp,    \* whether Muxer.restamper is set
    rpc,         \* per edge and call (Connect, Disconnect): where a concurrent caller is
    paused,      \* per node: whether its pause gate is closed
    since        \* per node: items it started to process since the gate was closed

poolVars == <<poolP, poolAlloc, bufRef, closerCbs, held, reused>>
dispVars == <<hs, wg, dpc, dsnap, dsrc, ndisp, tasks, dhs, dfail, recv, rdata>>
fwdVars == <<fs, fpc, nframes>>
envVars == <<rootCancelled, closed, freed>>
userVars == <<own>>
muxVars == <<mpc, mruns, onceDone, hdrRet, headers, mq, npkts, written, trailers>>
wpVars == <<ws, wpm, wpc, wret, lastAdded, wnames>>
connVars == <<cpc, clast, children, parents>>
errVars == <<ea, eb, isDone, isRes>>
dmxVars == <<dmxpc, dpkt, dinput, dpos, dloop, demul, loopFirstPkt, demitted, ddisp,
             dseeks, nextAt, dwake, dread, now, nticks, nodeCancelled>>
mpktVars == <<mpkts, mpayload, mlog, merrs, mrestamp>>
raceVars == <<rpc>>
pauseVars == <<paused, since>>
auxVars == <<connVars, errVars, dmxVars, mpktVars, raceVars, pauseVars>>
vars == <<poolVars, dispVars, fwdVars, envVars, userVars, muxVars, wpVars, auxVars>>

\* ------------------------------------------------------------- framePool
\* the buffer get() returns: a fresh one when the free list is empty,
\* else the head of the free list
PoolNext(p) == IF poolP[p] = <<>> THEN poolAlloc[p] + 1 ELSE Head(poolP[p])

FreeAfterGet_NoPop(free) == free
\* p.p = p.p[1:] (nothing to remove when a fresh buffer was allocated)
FreeAfterGet(free) == IF free = <<>> THEN free ELSE Tail(free)

CbsAfterGet_Always(cbs, p, free, b) == Append(cbs, [kind |-> "free", pool |-> p, buf |-> b])
\* p.c.Add(func() { AvFrameFree(f) }) on the allocation branch only
CbsAfterGet(cbs, p, free, b) ==
    IF free = <<>> THEN Append(cbs, [kind |-> "free", pool |-> p, buf |-> b]) ELSE cbs

\* get() followed by the caller's AvFrameRef(b, src): data is what the
\* buffer references afterwards (0 when the reference failed)
PoolGet(p, data) ==
    LET b == PoolNext(p) IN
    /\ poolP' = [poolP EXCEPT ![p] = FreeAfterGet(@)]
    /\ poolAlloc' = [poolAlloc EXCEPT ![p] = IF poolP[p] = <<>> THEN @ + 1 ELSE @]
    /\ closerCbs' = CbsAfterGet(closerCbs, p, poolP[p], b)
    /\ bufRef' = [bufRef EXCEPT ![p] =
                    IF b > Len(@) THEN Append(@, data) ELSE [@ EXCEPT ![b] = data]]
    /\ held' = [held EXCEPT ![p] =
                    IF b > Len(@) THEN Append(@, 1) ELSE [@ EXCEPT ![b] = @ + 1]]
    /\ reused' = [reused EXCEPT ![p] = @ \/ poolP[p] # <<>>]

\* p.p = append(p.p, f)
FreeAfterPut(free, b) == Append(free, b)

\* put(): AvFrameUnref(f), then back on the free list
PoolPut(p, b) ==
    /\ poolP' = [poolP EXCEPT ![p] = FreeAfterPut(@, b)]
    /\ bufRef' = [bufRef EXCEPT ![p][b] = 0]
    /\ held' = [held EXCEPT ![p][b] = @ - 1]
    /\ UNCHANGED <<poolAlloc, closerCbs, reused>>

\* --------------------------------------------------------------- context
\* the forwarder's chan context exists once Start ran; it is done when the
\* root context is cancelled or the body's deferred c.Stop() ran
ChanCtxDone == fpc # "created" /\ (rootCancelled \/ fpc = "stopped")

\* ------------------------------------------------------- native library
RECURSIVE Gcd(_, _)
Gcd(a, b) == IF b = 0 THEN a ELSE Gcd(b, a % b)

\* avutil.AvRescaleQ(a, bq, cq): a * bq / cq rounded to the nearest integer,
\* halves away from zero (a >= 0). The fraction is reduced first, which
\* leaves the rounded value as it is and keeps the product small
AvRescaleQ(a, bq, cq) ==
    LET n == bq.num * cq.den
        d == bq.den * cq.num
        g == Gcd(n, d)
        nr == n \div g
        dr == d \div g
    IN (a * nr + dr \div 2) \div dr

\* ---------------------------------------------------------- demuxer input
\* the streams the demuxer indexed in d.ss: a video and an audio stream
KnownStreams == {"v", "a"}
\* what a packet of the input can be: video packets of one or two frame
\* durations, audio packets of 1024 samples with and without skip-samples
\* side data, a packet of a stream that is not in d.ss
PktKinds ==
    {[s |-> "v", dur |-> 1, skip |-> 0], [s |-> "v", dur |-> 2, skip |-> 0],
     [s |-> "a", dur |-> 1024, skip |-> 0], [s |-> "a", dur |-> 1024, skip |-> 512],
     [s |-> "x", dur |-> 1, skip |-> 0]}
\* the finite inputs made of packets of the given kinds
InputsOf(kinds) == UNION {[1..n -> kinds] : n \in 1..MaxInput}
\* without rate emulation a packet's duration and side data are not looked at
PlainKinds == {pk \in PktKinds : pk.dur = 1}
\* a demuxer that is not used: no input, NewDemuxer's defaults
NoDemuxer == dinput = <<>> /\ dloop = FALSE /\ demul = FALSE
\* a muxer without restamper: NewMuxer with MuxerOptions.Restamper left nil
NoRestamper == mrestamp = FALSE

\* -------------------------------------------------------------- Init
\* everything but the handler tables, as the constructors leave it
InitBase ==
    /\ poolP = [p \in Disp |-> <<>>]
    /\ poolAlloc = [p \in Disp |-> 0]
    /\ bufRef = [p \in Disp |-> <<>>]
    /\ closerCbs = <<>>
    /\ held = [p \in Disp |-> <<>>]
    /\ reused = [p \in Disp |-> FALSE]
    /\ wg = [d \in Disp |-> 0]
    /\ dpc = [d \in Disp |-> "idle"]
    /\ dsnap = [d \in Disp |-> {}]
    /\ dsrc = [d \in Disp |-> 0]
    /\ ndisp = [d \in Disp |-> 0]
    /\ tasks = [d \in Disp |-> {}]
    /\ dhs = [d \in Disp |-> {}]
    /\ dfail = [d \in Disp |-> {}]
    /\ recv = [d \in Disp |-> [h \in HandlersOf(d) |-> <<>>]]
    /\ rdata = [d \in Disp |-> [h \in HandlersOf(d) |-> <<>>]]
    /\ fs = <<>>
    /\ fpc = "created"
    /\ nframes = 0
    /\ rootCancelled = FALSE
    /\ closed = FALSE
    /\ freed = [p \in Disp |-> <<>>]
    /\ own = [u \in Users |-> {}]
    /\ mpc = "idle"
    /\ mruns = 0
    /\ onceDone = FALSE
    /\ hdrRet = 0
    /\ headers = 0
    /\ mq = <<>>
    /\ npkts = 0
    /\ written = <<>>
    /\ trailers = 0
    /\ ws = [n \in Names |-> 0]
    /\ wpm = "none"
    /\ wpc = [c \in Callers |-> [op |-> "none", name |-> "a", w |-> 0, st |-> "idle"]]
    /\ wret = [c \in Callers |-> [op |-> "none", name |-> "a", w |-> 0, err |-> "nil",
                                   list |-> {}, last |-> 0, all |-> {}]]
    /\ lastAdded = [n \in Names |-> 0]
    /\ wnames = <<>>
    /\ cpc = [e \in Edges |-> "idle"]
    /\ clast = [e \in Edges |-> "none"]
    /\ children = [d \in Disp |-> {}]
    /\ parents = [h \in AllHandlers |-> {}]
    /\ isDone = FALSE
    /\ isRes = FALSE
    /\ dmxpc = "created"
    /\ dpkt = 0
    /\ dpos = 0
    /\ loopFirstPkt = 0
    /\ demitted = <<>>
    /\ ddisp = <<>>
    /\ dseeks = 0
    /\ nextAt = [st \in KnownStreams |-> 0]
    /\ dwake = 0
    /\ dread = 0
    /\ mpkts = <<>>
    /\ mpayload = <<>>
    /\ mlog = <<>>
    /\ merrs = 0
    /\ rpc = [e \in Edges |-> [c \in ConnCalls |-> "idle"]]
    /\ paused = [n \in PausableNodes |-> FALSE]
    /\ since = [n \in PausableNodes |-> 0]
    /\ now = 0
    /\ nticks = 0
    /\ nodeCancelled = FALSE

\* a forwarder just built: newFrameDispatcher leaves the handler table empty
Init ==
    /\ InitBase
    /\ hs = [d \in Disp |-> {}]
    /\ ea = 0 /\ eb = 0
    /\ NoDemuxer
    /\ NoRestamper

\* ------------------------------------------------------- frameDispatcher
\* addHandler: d.hs[h.Metadata().Name] = h (adding a registered name
\* again changes nothing, so only the calls that change hs are steps)
AddHandler(d, h) ==
    /\ h \notin hs[d]
    /\ hs' = [hs EXCEPT ![d] = @ \cup {h}]
    /\ UNCHANGED <<auxVars, poolVars, wg, dpc, dsnap, dsrc, ndisp, tasks, dhs, dfail, recv, rdata,
                   fwdVars, envVars, userVars, muxVars, wpVars>>

\* delHandler: delete(d.hs, h.Metadata().Name)
DelHandler(d, h) ==
    /\ h \in hs[d]
    /\ hs' = [hs EXCEPT ![d] = @ \ {h}]
    /\ UNCHANGED <<auxVars, poolVars, wg, dpc, dsnap, dsrc, ndisp, tasks, dhs, dfail, recv, rdata,
                   fwdVars, envVars, userVars, muxVars, wpVars>>

Snapshot_All(d) == HandlersOf(d)
\* dispatch(), "Copy handlers": the handlers registered when d.m is held
Snapshot(d) == hs[d]

\* dispatch(f, descriptor) is called with the producer's buffer f: the
\* snapshot is taken; "No handlers": an empty snapshot returns at once
DispatchCall(d, f) ==
    /\ dpc[d] = "idle"
    /\ dsrc' = [dsrc EXCEPT ![d] = f]
    /\ ndisp' = [ndisp EXCEPT ![d] = @ + 1]
    /\ dsnap' = [dsnap EXCEPT ![d] = Snapshot(d)]
    /\ dhs' = [dhs EXCEPT ![d] = hs[d]]
    /\ dfail' = [dfail EXCEPT ![d] = {}]
    /\ dpc' = [dpc EXCEPT ![d] = IF Snapshot(d) = {} THEN "ret" ELSE "wait"]

WaitDone_NoWait(d) == TRUE
\* d.wait(): d.wg.Wait() returns when the counter is zero
WaitDone(d) == wg[d] = 0

\* dispatch(): d.wait() then d.wg.Add(len(hs))
DWaitAdd(d) ==
    /\ dpc[d] = "wait"
    /\ WaitDone(d)
    /\ wg' = [wg EXCEPT ![d] = @ + Cardinality(dsnap[d])]
    /\ dpc' = [dpc EXCEPT ![d] = "loop"]
    /\ UNCHANGED <<auxVars, poolVars, hs, dsnap, dsrc, ndisp, tasks, dhs, dfail, recv, rdata,
                   fwdVars, envVars, userVars, muxVars, wpVars>>

\* the goroutine dispatch() spawns for handler h with its copy hF
NewTask(d, h, hF) == [h |-> h, buf |-> hF, seq |-> ndisp[d], st |-> "spawned"]

SpawnOnFail_Always(ok) == TRUE
\* the goroutine is spawned only when AvFrameRef succeeded
SpawnOnFail(ok) == ok

\* dispatch(), one iteration of "Loop through handlers": hF := d.p.get();
\* AvFrameRef(hF, f) succeeds (ok) and the goroutine is spawned, or fails
\* and the iteration ends with d.wg.Done() and continue
DLoop(d, h, ok) ==
    LET hF == PoolNext(d)
        rest == dsnap[d] \ {h}
    IN
    /\ dpc[d] = "loop"
    /\ h \in dsnap[d]
    /\ PoolGet(d, IF ok THEN bufRef[d][dsrc[d]] ELSE 0)
    /\ tasks' = [tasks EXCEPT ![d] = IF SpawnOnFail(ok) THEN @ \cup {NewTask(d, h, hF)} ELSE @]
    /\ wg' = [wg EXCEPT ![d] = IF ok THEN @ ELSE @ - 1]
    /\ dfail' = [dfail EXCEPT ![d] = IF ok THEN @ ELSE @ \cup {h}]
    /\ dsnap' = [dsnap EXCEPT ![d] = rest]
    /\ dpc' = [dpc EXCEPT ![d] = IF rest = {} THEN "ret" ELSE "loop"]
    /\ UNCHANGED <<auxVars, hs, dsrc, ndisp, dhs, recv, rdata, fwdVars, envVars, userVars, muxVars, wpVars>>

\* the spawned goroutine calls h.HandleFrame(payload) of a sink handler
TaskInvoke(d, t) ==
    /\ t \in tasks[d]
    /\ t.st = "spawned"
    /\ tasks' = [tasks EXCEPT ![d] = (@ \ {t}) \cup {[t EXCEPT !.st = "handling"]}]
    /\ recv' = [recv EXCEPT ![d][t.h] = Append(@, t.seq)]
    /\ rdata' = [rdata EXCEPT ![d][t.h] = Append(@, bufRef[d][t.buf])]
    /\ UNCHANGED <<auxVars, poolVars, hs, wg, dpc, dsnap, dsrc, ndisp, dhs, dfail,
                   fwdVars, envVars, userVars, muxVars, wpVars>>

\* the sink's HandleFrame returns and the goroutine's first defer runs:
\* d.p.put(hF)
TaskReturn(d, t) ==
    /\ t \in tasks[d]
    /\ t.st = "handling"
    /\ PoolPut(d, t.buf)
    /\ tasks' = [tasks EXCEPT ![d] = (@ \ {t}) \cup {[t EXCEPT !.st = "released"]}]
    /\ UNCHANGED <<auxVars, hs, wg, dpc, dsnap, dsrc, ndisp, dhs, dfail, recv, rdata,
                   fwdVars, envVars, userVars, muxVars, wpVars>>

\* the goroutine's last defer, d.wg.Done(), runs and the goroutine ends
TaskDone(d, t) ==
    /\ t \in tasks[d]
    /\ t.st = "released"
    /\ tasks' = [tasks EXCEPT ![d] = @ \ {t}]
    /\ wg' = [wg EXCEPT ![d] = @ - 1]
    /\ UNCHANGED <<auxVars, poolVars, hs, dpc, dsnap, dsrc, ndisp, dhs, dfail, recv, rdata,
                   fwdVars, envVars, userVars, muxVars, wpVars>>

\* ------------------------------------------------------------- Forwarder
\* HandleFrame(p) called by the upstream node with frame number data:
\* fm := f.p.get(); AvFrameRef(fm, p.Frame) fails (return, fm is not put
\* back) or succeeds and the closure is handed to f.c.Add, which
\* (astikit.Chan.Add) returns without queueing when the chan's context is done
HandleFrame(data, ok) ==
    /\ PoolGet("fwd", IF ok THEN data ELSE 0)
    /\ fs' = IF ok /\ ~ChanCtxDone THEN Append(fs, [fm |-> PoolNext("fwd")]) ELSE fs

\* the upstream node hands over its next frame
UpstreamHandleFrame(ok) ==
    /\ nframes < MaxFrames
    /\ nframes' = nframes + 1
    /\ HandleFrame(nframes + 1, ok)
    /\ UNCHANGED <<auxVars, dispVars, fpc, envVars, userVars, muxVars, wpVars>>

\* Forwarder.Start: the body runs f.c.Start(f.Context())
FwdStart ==
    /\ fpc = "created"
    /\ fpc' = "loop"
    /\ UNCHANGED <<auxVars, poolVars, dispVars, fs, nframes, envVars, userVars, muxVars, wpVars>>

\* the chan consumer runs the first closure up to
\* f.d.dispatch(fm, p.Descriptor)
ChanExec ==
    /\ fpc = "loop"
    /\ fs # <<>>
    /\ DispatchCall("fwd", Head(fs).fm)
    /\ fpc' = "disp"
    /\ UNCHANGED <<auxVars, poolVars, hs, wg, tasks, recv, rdata, fs, nframes, envVars, userVars, muxVars, wpVars>>

\* dispatch returned: the closure's defers f.p.put(fm) and f.HandlePause()
\* run, then the chan removes the closure from its queue
ChanRelease ==
    /\ fpc = "disp"
    /\ dpc["fwd"] = "ret"
    /\ dpc' = [dpc EXCEPT !["fwd"] = "idle"]
    /\ PoolPut("fwd", dsrc["fwd"])
    /\ fs' = Tail(fs)
    /\ fpc' = "loop"
    /\ UNCHANGED <<auxVars, hs, wg, dsnap, dsrc, ndisp, tasks, dhs, dfail, recv, rdata,
                   nframes, envVars, userVars, muxVars, wpVars>>

\* astikit.Chan.Start returns once its context is done and, with
\* ProcessAll, the queue is empty; the body's defer f.c.Stop() runs
ChanExit ==
    /\ fpc = "loop"
    /\ rootCancelled
    /\ fs = <<>>
    /\ fpc' = "stopped"
    /\ UNCHANGED <<auxVars, poolVars, dispVars, fs, nframes, envVars, userVars, muxVars, wpVars>>

\* ----------------------------------------------------------- environment
\* the workflow's root context is cancelled
Cancel ==
    /\ ~rootCancelled
    /\ rootCancelled' = TRUE
    /\ UNCHANGED <<auxVars, poolVars, dispVars, fwdVars, closed, freed, userVars, muxVars, wpVars>>

\* ------------------------------------------------------- specification
\* the forwarder and its dispatcher at work
Next ==
    \/ \E h \in Sinks : AddHandler("fwd", h)
    \/ \E h \in Sinks : DelHandler("fwd", h)
    \/ \E ok \in BOOLEAN : UpstreamHandleFrame(ok)
    \/ FwdStart
    \/ ChanExec
    \/ DWaitAdd("fwd")
    \/ \E h \in Sinks, ok \in BOOLEAN : DLoop("fwd", h, ok)
    \/ \E t \in tasks["fwd"] : TaskInvoke("fwd", t)
    \/ \E t \in tasks["fwd"] : TaskReturn("fwd", t)
    \/ \E t \in tasks["fwd"] : TaskDone("fwd", t)
    \/ ChanRelease

Spec == Init /\ [][Next]_vars

\* ------------------------------------------------------ direct pool users
\* a goroutine calls p.get() and references something with the buffer
UserGet(u, p) ==
    /\ ~closed
    /\ Cardinality(own[u]) < MaxOwn
    /\ PoolGet(p, 1)
    /\ own' = [own EXCEPT ![u] = @ \cup {<<p, PoolNext(p)>>}]
    /\ UNCHANGED <<auxVars, dispVars, fwdVars, envVars, muxVars, wpVars>>

\* a goroutine calls p.put(b) on a buffer it got and has not put back
UserPut(u, p, b) ==
    /\ ~closed
    /\ <<p, b>> \in own[u]
    /\ PoolPut(p, b)
    /\ own' = [own EXCEPT ![u] = @ \ {<<p, b>>}]
    /\ UNCHANGED <<auxVars, dispVars, fwdVars, envVars, muxVars, wpVars>>

\* how often the Closer's callbacks call AvFrameFree on buffer b of pool p
FreeCount(p, b) ==
    Cardinality({i \in 1..Len(closerCbs) :
        closerCbs[i] = [kind |-> "free", pool |-> p, buf |-> b]})

\* how many of the Closer's callbacks call AvWriteTrailer
TrailerCount ==
    Cardinality({i \in 1..Len(closerCbs) : closerCbs[i].kind = "trailer"})

\* teardown, once the node bodies have returned: the Closer runs every
\* callback that was added to it, once
Close ==
    /\ ~closed
    /\ mpc = "idle"
    /\ closed' = TRUE
    /\ freed' = [p \in Disp |-> [b \in 1..poolAlloc[p] |-> FreeCount(p, b)]]
    /\ trailers' = TrailerCount
    /\ UNCHANGED <<auxVars, poolVars, dispVars, fwdVars, rootCancelled, userVars, wpVars,
                   mpc, mruns, onceDone, hdrRet, headers, mq, npkts, written>>

\* the pools used by concurrent callers, then torn down
NextPool ==
    \/ \E u \in Users : UserGet(u, "dmx")
    \/ \E u \in Users : \E x \in own[u] : UserPut(u, x[1], x[2])
    \/ Close

SpecPool == Init /\ [][NextPool]_vars

\* ---------------------------------------------------------- cancellation
\* a connected graph: both sinks are registered in the forwarder's dispatcher
InitCancel ==
    /\ InitBase
    /\ hs = [d \in Disp |-> HandlersOf(d)]
    /\ ea = 0 /\ eb = 0
    /\ NoDemuxer
    /\ NoRestamper

\* the steps the goroutines of the graph take on their own
Progress ==
    \/ FwdStart
    \/ ChanExec
    \/ DWaitAdd("fwd")
    \/ \E h \in Sinks, ok \in BOOLEAN : DLoop("fwd", h, ok)
    \/ \E t \in tasks["fwd"] : TaskInvoke("fwd", t)
    \/ \E t \in tasks["fwd"] : TaskReturn("fwd", t)
    \/ \E t \in tasks["fwd"] : TaskDone("fwd", t)
    \/ ChanRelease
    \/ ChanExit

\* the running graph, whose root context is cancelled at some moment
NextCancel ==
    \/ \E ok \in BOOLEAN : UpstreamHandleFrame(ok)
    \/ Cancel
    \/ Progress

\* every goroutine that can take a step eventually takes one
SpecCancel == InitCancel /\ [][NextCancel]_vars /\ WF_vars(Progress)

\* ----------------------------------------------------------------- Muxer
\* Muxer.Start: BaseNode.Start runs the body, the first time or again
\* after the body has returned
MuxStart ==
    /\ ~closed
    /\ mpc = "idle"
    /\ mruns < MaxRuns
    /\ mruns' = mruns + 1
    /\ mpc' = "header"
    /\ UNCHANGED <<auxVars, poolVars, dispVars, fwdVars, envVars, userVars, wpVars,
                   onceDone, hdrRet, headers, mq, npkts, written, trailers>>

\* m.o.Do(f): sync.Once calls f in the first Do only
OnceDo(done) == ~done

\* the body up to m.q.Start: the header is written through m.o (ok: what
\* AvformatWriteHeader does when it is called); ret < 0 returns; else the
\* callback that writes the trailer is added to m.c
MuxHeader(ok) ==
    LET call == OnceDo(onceDone)
        ret == IF call /\ ~ok THEN 0 - 1 ELSE 0
    IN
    /\ mpc = "header"
    /\ onceDone' = TRUE
    /\ headers' = IF call THEN headers + 1 ELSE headers
    /\ hdrRet' = IF call THEN ret ELSE hdrRet
    /\ closerCbs' = IF ret < 0 THEN closerCbs
                    ELSE Append(closerCbs, [kind |-> "trailer", pool |-> "mux", buf |-> mruns])
    /\ mpc' = IF ret < 0 THEN "idle" ELSE "queue"
    /\ UNCHANGED <<auxVars, poolP, poolAlloc, bufRef, held, reused, dispVars, fwdVars, envVars,
                   userVars, wpVars, mruns, mq, npkts, written, trailers>>

HandlePauseBlocks_Never(n, ctxDone) == FALSE
\* d.HandlePause() does not return: the node's gate is closed and its
\* context is not done
HandlePauseBlocks(n, ctxDone) == paused[n] /\ ~ctxDone

\* the node starts to process an item: counted while its gate is closed
SinceAfterItem(n) == [since EXCEPT ![n] = IF paused[n] THEN @ + 1 ELSE @]

\* the muxer's output streams: time base and index
MuxStreams ==
    [o1 |-> [tb |-> [num |-> 1, den |-> 90000], idx |-> 0],
     o2 |-> [tb |-> [num |-> 1, den |-> 1000], idx |-> 1]]
\* the node upstream of each stream's handler: the time base of its
\* descriptor and the stream index its packets carry
MuxSources ==
    [o1 |-> [tb |-> [num |-> 1, den |-> 1000], idx |-> 7],
     o2 |-> [tb |-> [num |-> 1, den |-> 48000], idx |-> 8]]
\* the k-th packet a source produces: timestamps 1000, 2000, ...
SourcePkt(o, k) == [pts |-> 1000 * k, dts |-> 1000 * k, idx |-> MuxSources[o].idx]
\* how many packets of the source of stream o were handed over so far
SentBy(o) == Cardinality({n \in 1..Len(mpayload) : mpayload[n].o = o})

AvPacketRescaleTs_Keep(pkt, src, dst) == pkt
\* p.Pkt.AvPacketRescaleTs(src, dst): the timestamps go from src to dst
AvPacketRescaleTs(pkt, src, dst) ==
    [pkt EXCEPT !.pts = AvRescaleQ(@, src, dst), !.dts = AvRescaleQ(@, src, dst)]

\* the function pktHandlerPayloadRetriever returns, called: the payload's
\* packet is rescaled from the descriptor's time base to the stream's and
\* gets the stream's index
pktHandlerPayloadRetriever(pkt, pl) ==
    [AvPacketRescaleTs(pkt, pl.tb, MuxStreams[pl.o].tb) EXCEPT !.idx = MuxStreams[pl.o].idx]

\* timestamps a restamper may give a packet
RestampOut == {0, 3000}
\* m.restamper.Restamp(p.Pkt): the PktRestamper sets the timestamps
Restamp(pkt, r) == [pkt EXCEPT !.pts = r, !.dts = r]

\* MuxerPktHandler.HandlePkt of the handler of stream o: h.q.Send hands the
\* function pktHandlerPayloadRetriever(p) returns to the running queue
MuxHandlePkt(o) ==
    /\ mpc \in {"queue", "paused"}
    /\ npkts < MaxPkts
    /\ npkts' = npkts + 1
    /\ mq' = Append(mq, npkts + 1)
    /\ mpkts' = Append(mpkts, SourcePkt(o, SentBy(o) + 1))
    /\ mpayload' = Append(mpayload, [tb |-> MuxSources[o].tb, o |-> o,
                                     in |-> SourcePkt(o, SentBy(o) + 1)])
    /\ UNCHANGED <<connVars, errVars, dmxVars, raceVars, pauseVars, mlog, merrs, mrestamp,
                   poolVars, dispVars, fwdVars, envVars, userVars, wpVars,
                   mpc, mruns, onceDone, hdrRet, headers, written, trailers>>

\* the function given to m.q.Start handles one packet: the retriever is
\* called, the restamper (if any) restamps the packet (r: the timestamp it
\* gives), AvInterleavedWriteFrame writes it (ok) or fails, which is
\* emitted; either way the function returns, its defer m.HandlePause()
\* runs, and the queue goes on once that has returned
MuxWrite(ok, r) ==
    LET n == Head(mq)
        p1 == pktHandlerPayloadRetriever(mpkts[n], mpayload[n])
        p2 == IF mrestamp THEN Restamp(p1, r) ELSE p1
    IN
    /\ mpc = "queue"
    /\ mq # <<>>
    /\ mq' = Tail(mq)
    /\ mpkts' = [mpkts EXCEPT ![n] = p2]
    /\ mlog' = Append(mlog, [n |-> n, pre |-> p1, pkt |-> p2, ok |-> ok])
    /\ written' = IF ok THEN Append(written, n) ELSE written
    /\ merrs' = IF ok THEN merrs ELSE merrs + 1
    /\ since' = SinceAfterItem("mux")
    /\ mpc' = IF HandlePauseBlocks("mux", FALSE) THEN "paused" ELSE "queue"
    /\ UNCHANGED <<connVars, errVars, dmxVars, raceVars, paused, mpayload, mrestamp,
                   poolVars, dispVars, fwdVars, envVars, userVars, wpVars,
                   mruns, onceDone, hdrRet, headers, npkts, trailers>>

\* the node is stopped, its context done: a HandlePause under way returns,
\* m.q.Start returns, defer m.q.Stop() runs and the body returns
MuxStop ==
    /\ mpc \in {"queue", "paused"}
    /\ mpc' = "idle"
    /\ since' = [since EXCEPT !["mux"] = 0]
    /\ UNCHANGED <<connVars, errVars, dmxVars, mpktVars, raceVars, paused, poolVars,
                   dispVars, fwdVars, envVars, userVars, wpVars,
                   mruns, onceDone, hdrRet, headers, mq, npkts, written, trailers>>

\* a muxer started and stopped several times, then torn down
NextMuxer ==
    \/ MuxStart
    \/ \E ok \in BOOLEAN : MuxHeader(ok)
    \/ \E o \in DOMAIN MuxStreams : MuxHandlePkt(o)
    \/ \E ok \in BOOLEAN, r \in RestampOut : MuxWrite(ok, r)
    \/ MuxStop
    \/ Close

\* a muxer with or without restamper
InitMuxer ==
    /\ InitBase
    /\ hs = [d \in Disp |-> {}]
    /\ ea = 0 /\ eb = 0
    /\ NoDemuxer
    /\ mrestamp \in BOOLEAN

SpecMuxer == InitMuxer /\ [][NextMuxer]_vars

\* ---------------------------------------------------------- WorkflowPool
\* a goroutine calls AddWorkflow(w) with a workflow it just created under
\* name n, Workflow(n) or Workflows(), and reaches wp.m.Lock()
WPCall(c, op, n) ==
    /\ wpc[c].st = "idle"
    /\ op = "add" => Len(wnames) < MaxWorkflows
    /\ wnames' = IF op = "add" THEN Append(wnames, n) ELSE wnames
    /\ wpc' = [wpc EXCEPT ![c] = [op |-> op, name |-> n, st |-> "lock",
                                 w |-> IF op = "add" THEN Len(wnames) + 1 ELSE 0]]
    /\ UNCHANGED <<auxVars, poolVars, dispVars, fwdVars, envVars, userVars, muxVars,
                   ws, wpm, wret, lastAdded>>

\* sync.Mutex: Lock() returns when no goroutine holds the mutex
MutexFree(m) == m = "none"

\* wp.m.Lock() returns
WPLock(c) ==
    /\ wpc[c].st = "lock"
    /\ MutexFree(wpm)
    /\ wpm' = c
    /\ wpc' = [wpc EXCEPT ![c].st = "locked"]
    /\ UNCHANGED <<auxVars, poolVars, dispVars, fwdVars, envVars, userVars, muxVars,
                   ws, wret, lastAdded, wnames>>

WsAfterAdd_KeepFirst(m, n, w) == IF m[n] = 0 THEN [m EXCEPT ![n] = w] ELSE m
\* wp.ws[w.name] = w
WsAfterAdd(m, n, w) == [m EXCEPT ![n] = w]

\* AddWorkflow under the mutex, then the deferred Unlock
AddWorkflow(c) ==
    /\ wpc[c].st = "locked"
    /\ wpc[c].op = "add"
    /\ ws' = WsAfterAdd(ws, wpc[c].name, wpc[c].w)
    /\ lastAdded' = [lastAdded EXCEPT ![wpc[c].name] = wpc[c].w]
    /\ wret' = [wret EXCEPT ![c] = [op |-> "add", name |-> wpc[c].name, w |-> 0,
                                   err |-> "nil", list |-> {}, last |-> 0, all |-> {}]]
    /\ wpm' = "none"
    /\ wpc' = [wpc EXCEPT ![c].st = "idle"]
    /\ UNCHANGED <<auxVars, poolVars, dispVars, fwdVars, envVars, userVars, muxVars, wnames>>

\* w, ok = wp.ws[name] reads the map
WsAfterLookup(m, n) == m

\* Workflow(name) under the mutex: the entry and a nil error, or no
\* workflow and ErrWorkflowNotFound; then the deferred Unlock
Workflow(c) ==
    LET n == wpc[c].name IN
    /\ wpc[c].st = "locked"
    /\ wpc[c].op = "get"
    /\ ws' = WsAfterLookup(ws, n)
    /\ wret' = [wret EXCEPT ![c] =
                   [op |-> "get", name |-> n, w |-> ws[n],
                    err |-> IF ws[n] = 0 THEN "ErrWorkflowNotFound" ELSE "nil",
                    list |-> {}, last |-> lastAdded[n], all |-> {}]]
    /\ wpm' = "none"
    /\ wpc' = [wpc EXCEPT ![c].st = "idle"]
    /\ UNCHANGED <<auxVars, poolVars, dispVars, fwdVars, envVars, userVars, muxVars,
                   lastAdded, wnames>>

\* Workflows() under the mutex: every entry of the map, in no given order
Workflows(c) ==
    /\ wpc[c].st = "locked"
    /\ wpc[c].op = "list"
    /\ wret' = [wret EXCEPT ![c] =
                   [op |-> "list", name |-> wpc[c].name, w |-> 0, err |-> "nil",
                    list |-> {ws[n] : n \in {x \in Names : ws[x] # 0}},
                    last |-> 0,
                    all |-> {lastAdded[n] : n \in {x \in Names : lastAdded[x] # 0}}]]
    /\ wpm' = "none"
    /\ wpc' = [wpc EXCEPT ![c].st = "idle"]
    /\ UNCHANGED <<auxVars, poolVars, dispVars, fwdVars, envVars, userVars, muxVars,
                   ws, lastAdded, wnames>>

\* concurrent callers of one workflow pool
NextWP ==
    \/ \E c \in Callers, n \in Names : WPCall(c, "add", n)
    \/ \E c \in Callers, n \in Names : WPCall(c, "get", n)
    \/ \E c \in Callers : WPCall(c, "list", "a")
    \/ \E c \in Callers : WPLock(c)
    \/ \E c \in Callers : AddWorkflow(c)
    \/ \E c \in Callers : Workflow(c)
    \/ \E c \in Callers : Workflows(c)

SpecWP == Init /\ [][NextWP]_vars

\* ------------------------------------------------------------ connectors
\* d.hs[h.Metadata().Name] = h
HsAfterAdd(m, d, h) == [m EXCEPT ![d] = @ \cup {h}]

HsAfterDel_Keep(m, d, h) == m
\* delete(d.hs, h.Metadata().Name)
HsAfterDel(m, d, h) == [m EXCEPT ![d] = @ \ {h}]

\* Connect(h) on producer d, first statement: f.d.addHandler(h)
ConnectAdd(d, h) ==
    /\ cpc[<<d, h>>] = "idle"
    /\ hs' = HsAfterAdd(hs, d, h)
    /\ cpc' = [cpc EXCEPT ![<<d, h>>] = "connecting"]
    /\ UNCHANGED <<poolVars, wg, dpc, dsnap, dsrc, ndisp, tasks, dhs, dfail, recv, rdata,
                   fwdVars, envVars, userVars, muxVars, wpVars, errVars, dmxVars, mpktVars, raceVars, pauseVars, clast, children, parents>>

\* Connect(h), second statement: astiencoder.ConnectNodes(d, h) records the
\* edge in both nodes; then Connect returns
ConnectNodes(d, h) ==
    /\ cpc[<<d, h>>] = "connecting"
    /\ children' = [children EXCEPT ![d] = @ \cup {h}]
    /\ parents' = [parents EXCEPT ![h] = @ \cup {d}]
    /\ cpc' = [cpc EXCEPT ![<<d, h>>] = "idle"]
    /\ clast' = [clast EXCEPT ![<<d, h>>] = "connected"]
    /\ UNCHANGED <<poolVars, dispVars, fwdVars, envVars, userVars, muxVars, wpVars, errVars, dmxVars, mpktVars, raceVars, pauseVars>>

\* a subsequent Disconnect(h), first statement: f.d.delHandler(h)
DisconnectDel(d, h) ==
    /\ cpc[<<d, h>>] = "idle"
    /\ clast[<<d, h>>] = "connected"
    /\ hs' = HsAfterDel(hs, d, h)
    /\ cpc' = [cpc EXCEPT ![<<d, h>>] = "disconnecting"]
    /\ UNCHANGED <<poolVars, wg, dpc, dsnap, dsrc, ndisp, tasks, dhs, dfail, recv, rdata,
                   fwdVars, envVars, userVars, muxVars, wpVars, errVars, dmxVars, mpktVars, raceVars, pauseVars, clast, children, parents>>

\* Disconnect(h), second statement: astiencoder.DisconnectNodes(d, h)
\* removes the edge from both nodes; then Disconnect returns
DisconnectNodes(d, h) ==
    /\ cpc[<<d, h>>] = "disconnecting"
    /\ children' = [children EXCEPT ![d] = @ \ {h}]
    /\ parents' = [parents EXCEPT ![h] = @ \ {d}]
    /\ cpc' = [cpc EXCEPT ![<<d, h>>] = "idle"]
    /\ clast' = [clast EXCEPT ![<<d, h>>] = "disconnected"]
    /\ UNCHANGED <<poolVars, dispVars, fwdVars, envVars, userVars, muxVars, wpVars, errVars, dmxVars, mpktVars, raceVars, pauseVars>>

\* the edges of the graph connected and disconnected, one caller per edge
NextConn ==
    \/ \E e \in Edges : ConnectAdd(e[1], e[2])
    \/ \E e \in Edges : ConnectNodes(e[1], e[2])
    \/ \E e \in Edges : DisconnectDel(e[1], e[2])
    \/ \E e \in Edges : DisconnectNodes(e[1], e[2])

SpecConn == Init /\ [][NextConn]_vars

\* --------------------------------------------------------------- AvError
\* native return codes: AVERROR_EPIPE (-32), AVERROR_EOF (-541478725) and
\* other negated errno values
AvCodes == {-32, -541478725, -1, -2, -5, -11, -12, -13, -22, -110}

\* NewAvError(ret): the error that wraps the native return code
NewAvError(ret) == [type |-> "AvError", code |-> ret]

AvErrorIs_Always(e, o) == TRUE
\* e.Is(o): o is an AvError with the same integer code
AvErrorIs(e, o) == o.type = "AvError" /\ o.code = e.code

\* NewAvError(ea).Is(NewAvError(eb)) is called
CallIs ==
    /\ ~isDone
    /\ isDone' = TRUE
    /\ isRes' = AvErrorIs(NewAvError(ea), NewAvError(eb))
    /\ UNCHANGED <<poolVars, dispVars, fwdVars, envVars, userVars, muxVars, wpVars,
                   connVars, dmxVars, mpktVars, raceVars, pauseVars, ea, eb>>

\* two errors built from any two native codes
InitErr ==
    /\ InitBase
    /\ hs = [d \in Disp |-> {}]
    /\ ea \in AvCodes
    /\ eb \in AvCodes
    /\ NoDemuxer
    /\ NoRestamper

NextErr == CallIs

SpecErr == InitErr /\ [][NextErr]_vars

\* --------------------------------------------------------------- Demuxer
\* the time base and the sample rate of the demuxer's streams
StreamOf ==
    [v |-> [tb |-> [num |-> 1, den |-> 30], audio |-> FALSE, rate |-> 0],
     a |-> [tb |-> [num |-> 1, den |-> 48000], audio |-> TRUE, rate |-> 48000]]
nanosecondRational == [num |-> 1, den |-> NanosecondDen]

\* int64(float64(skip) / float64(rate) * 1e9): the skipped samples in ns,
\* truncated; the division is split so that the product stays small
SkipNs(skip, rate) ==
    skip * (NanosecondDen \div rate) + (skip * (NanosecondDen % rate)) \div rate

PktDuration_NoSkip(pk) == pk.dur
\* emulateRatePktDuration: pkt.Duration(), less the skipped samples of an
\* audio packet that carries skip-samples side data
emulateRatePktDuration(pk) ==
    IF StreamOf[pk.s].audio /\ pk.skip > 0
        THEN pk.dur - AvRescaleQ(SkipNs(pk.skip, StreamOf[pk.s].rate),
                                 nanosecondRational, StreamOf[pk.s].tb)
        ELSE pk.dur

\* the emulated duration of a packet in ns
DurNs(pk) == AvRescaleQ(emulateRatePktDuration(pk), StreamOf[pk.s].tb, nanosecondRational)

NextAtFirst_Zero(t) == 0
\* s.emulateRateNextAt = time.Now() for the first packet of a stream
NextAtFirst(t) == t

\* the emit deadline readFrame gives a packet of stream st read at time t
Deadline(st, t) == IF nextAt[st] = 0 THEN NextAtFirst(t) ELSE nextAt[st]

\* d.Context(): the node's child context is done when the node was
\* stopped or its parent was cancelled
NodeCtxDone == nodeCancelled \/ rootCancelled

SleepCtxDone_Child == NodeCtxDone
\* the context readFrame hands to astitime.Sleep is the ctx argument of
\* Start, the parent context
SleepCtxDone == rootCancelled

\* Demuxer.Start: the body starts to run
DmxStart ==
    /\ dmxpc = "created"
    /\ dmxpc' = "loop"
    /\ UNCHANGED <<poolVars, dispVars, fwdVars, envVars, userVars, muxVars, wpVars,
                   connVars, errVars, mpktVars, raceVars, pauseVars, dpkt, dinput, dpos, dloop, demul, loopFirstPkt,
                   demitted, ddisp, dseeks, nextAt, dwake, dread, now, nticks, nodeCancelled>>

\* readFrame: pkt := d.d.p.get()
DmxGet ==
    /\ dmxpc = "loop"
    /\ PoolGet("dmx", 0)
    /\ dpkt' = PoolNext("dmx")
    /\ dmxpc' = "read"
    /\ UNCHANGED <<dispVars, fwdVars, envVars, userVars, muxVars, wpVars,
                   connVars, errVars, mpktVars, raceVars, pauseVars, dinput, dpos, dloop, demul, loopFirstPkt,
                   demitted, ddisp, dseeks, nextAt, dwake, dread, now, nticks, nodeCancelled>>

\* readFrame: AvReadFrame fails with an error other than AVERROR_EOF: the
\* error is emitted and stop is set
DmxReadErr ==
    /\ dmxpc = "read"
    /\ demitted' = Append(demitted, "read")
    /\ dmxpc' = "putstop"
    /\ UNCHANGED <<poolVars, dispVars, fwdVars, envVars, userVars, muxVars, wpVars,
                   connVars, errVars, mpktVars, raceVars, pauseVars, dpkt, dinput, dpos, dloop, demul, loopFirstPkt,
                   ddisp, dseeks, nextAt, dwake, dread, now, nticks, nodeCancelled>>

StopOnEof_Never(loop) == FALSE
\* ret != AVERROR_EOF || !d.loop, for ret = AVERROR_EOF
StopOnEof(loop) == ~loop

\* readFrame: AvReadFrame returns AVERROR_EOF. Without loop, stop is set
\* and nothing is emitted; with loop and a recorded first packet
\* AvSeekFrame goes back to it (seekOk) or fails, which is emitted and
\* sets stop; with loop and no recorded packet readFrame just returns
DmxReadEof(seekOk) ==
    /\ dmxpc = "read"
    /\ dpos = Len(dinput)
    /\ IF StopOnEof(dloop)
         THEN /\ dmxpc' = "putstop"
              /\ UNCHANGED <<dpos, dseeks, demitted>>
         ELSE IF loopFirstPkt # 0
           THEN /\ dseeks < MaxSeeks
                /\ dseeks' = dseeks + 1
                /\ dpos' = IF seekOk THEN loopFirstPkt - 1 ELSE dpos
                /\ demitted' = IF seekOk THEN demitted ELSE Append(demitted, "seek")
                /\ dmxpc' = IF seekOk THEN "putcont" ELSE "putstop"
           ELSE /\ dmxpc' = "putcont"
                /\ UNCHANGED <<dpos, dseeks, demitted>>
    /\ UNCHANGED <<poolVars, dispVars, fwdVars, envVars, userVars, muxVars, wpVars,
                   connVars, errVars, mpktVars, raceVars, pauseVars, dpkt, dinput, dloop, demul, loopFirstPkt,
                   ddisp, nextAt, dwake, dread, now, nticks, nodeCancelled>>

\* what readFrame records of a dispatch call: the packet, when it was read,
\* when it is dispatched, its emit deadline (0 without rate emulation) and
\* whether the node's context was done by then
Dispatched(k, rd, dl) == [k |-> k, rd |-> rd, at |-> now, dl |-> dl, cx |-> NodeCtxDone]

\* readFrame: AvReadFrame returns the next packet of the input. A packet
\* of a stream that is not in d.ss is dropped. Otherwise the first packet
\* is recorded in loop mode and, with rate emulation, readFrame sleeps when
\* the stream's deadline is ahead; else the deadline moves on by the
\* packet's duration and the packet is dispatched
DmxReadPkt ==
    LET k == dpos + 1
        pk == dinput[k]
        dl == Deadline(pk.s, now)
    IN
    /\ dmxpc = "read"
    /\ dpos < Len(dinput)
    /\ dpos' = k
    /\ bufRef' = [bufRef EXCEPT !["dmx"][dpkt] = k]
    /\ IF pk.s \notin KnownStreams
         THEN /\ dmxpc' = "putcont"
              /\ UNCHANGED <<dispVars, loopFirstPkt, ddisp, nextAt, dwake, dread>>
         ELSE /\ loopFirstPkt' = IF dloop /\ loopFirstPkt = 0 THEN k ELSE loopFirstPkt
              /\ IF demul /\ nextAt[pk.s] # 0 /\ nextAt[pk.s] > now
                   THEN /\ dmxpc' = "sleep"
                        /\ dwake' = nextAt[pk.s]
                        /\ dread' = now
                        /\ UNCHANGED <<dispVars, ddisp, nextAt>>
                   ELSE /\ nextAt' = IF demul THEN [nextAt EXCEPT ![pk.s] = dl + DurNs(pk)]
                                               ELSE nextAt
                        /\ DispatchCall("dmx", dpkt)
                        /\ ddisp' = Append(ddisp, Dispatched(k, now, IF demul THEN dl ELSE 0))
                        /\ dmxpc' = "disp"
                        /\ UNCHANGED <<hs, wg, tasks, recv, rdata, dwake, dread>>
    /\ since' = IF dmxpc' = "disp" THEN SinceAfterItem("dmx") ELSE since
    /\ UNCHANGED <<poolP, poolAlloc, closerCbs, held, reused, fwdVars, envVars, userVars,
                   muxVars, wpVars, connVars, errVars, mpktVars, raceVars, paused, dpkt, dinput,
                   dloop, demul, demitted, dseeks, now, nticks, nodeCancelled>>

\* readFrame: astitime.Sleep(ctx, delta) returns, its timer fired or its
\* context is done; the deadline moves on by the packet's duration and the
\* packet is dispatched
DmxWake ==
    LET pk == dinput[dpos] IN
    /\ dmxpc = "sleep"
    /\ now >= dwake \/ SleepCtxDone
    /\ nextAt' = [nextAt EXCEPT ![pk.s] = @ + DurNs(pk)]
    /\ DispatchCall("dmx", dpkt)
    /\ ddisp' = Append(ddisp, Dispatched(dpos, dread, nextAt[pk.s]))
    /\ dmxpc' = "disp"
    /\ since' = SinceAfterItem("dmx")
    /\ UNCHANGED <<poolVars, hs, wg, tasks, recv, rdata, fwdVars, envVars, userVars, muxVars,
                   wpVars, connVars, errVars, mpktVars, raceVars, paused, dpkt, dinput, dpos, dloop, demul,
                   loopFirstPkt, demitted, dseeks, dwake, dread, now, nticks, nodeCancelled>>

\* readFrame returns: the deferred d.d.p.put(pkt) runs. Back in Start the
\* body returns when stop is set; else d.HandlePause(), which may block,
\* and the check of d.Context().Err() follow
DmxPut ==
    /\ \/ dmxpc \in {"putstop", "putcont"}
       \/ dmxpc = "disp" /\ dpc["dmx"] = "ret"
    /\ PoolPut("dmx", dpkt)
    /\ dpkt' = 0
    /\ dpc' = [dpc EXCEPT !["dmx"] = "idle"]
    /\ dmxpc' = IF dmxpc = "putstop" THEN "exit"
                ELSE IF HandlePauseBlocks("dmx", NodeCtxDone) THEN "pause"
                ELSE IF NodeCtxDone THEN "exit" ELSE "loop"
    /\ UNCHANGED <<hs, wg, dsnap, dsrc, ndisp, tasks, dhs, dfail, recv, rdata, fwdVars, envVars,
                   userVars, muxVars, wpVars, connVars, errVars, mpktVars, raceVars, pauseVars, dinput, dpos, dloop,
                   demul, loopFirstPkt, demitted, ddisp, dseeks, nextAt, dwake, dread, now,
                   nticks, nodeCancelled>>

\* d.HandlePause() returns, the node resumed or its context done; the
\* check of d.Context().Err() follows
DmxPauseOver ==
    /\ dmxpc = "pause"
    /\ ~HandlePauseBlocks("dmx", NodeCtxDone)
    /\ dmxpc' = IF NodeCtxDone THEN "exit" ELSE "loop"
    /\ UNCHANGED <<poolVars, dispVars, fwdVars, envVars, userVars, muxVars, wpVars,
                   connVars, errVars, mpktVars, raceVars, pauseVars, dpkt, dinput, dpos, dloop,
                   demul, loopFirstPkt, demitted, ddisp, dseeks, nextAt, dwake, dread, now,
                   nticks, nodeCancelled>>

\* the body's defer d.d.wait() returns and the body is over
DmxExit ==
    /\ dmxpc = "exit"
    /\ WaitDone("dmx")
    /\ dmxpc' = "stopped"
    /\ UNCHANGED <<poolVars, dispVars, fwdVars, envVars, userVars, muxVars, wpVars,
                   connVars, errVars, mpktVars, raceVars, pauseVars, dpkt, dinput, dpos, dloop, demul, loopFirstPkt,
                   demitted, ddisp, dseeks, nextAt, dwake, dread, now, nticks, nodeCancelled>>

\* Stop() of the demuxer alone: its child context is cancelled
StopNode ==
    /\ dmxpc \notin {"created", "stopped"}
    /\ ~nodeCancelled
    /\ nodeCancelled' = TRUE
    /\ UNCHANGED <<poolVars, dispVars, fwdVars, envVars, userVars, muxVars, wpVars,
                   connVars, errVars, mpktVars, raceVars, pauseVars, dmxpc, dpkt, dinput, dpos, dloop, demul,
                   loopFirstPkt, demitted, ddisp, dseeks, nextAt, dwake, dread, now, nticks>>

\* a demuxer without rate emulation, with or without loop, wired to the
\* handler F
InitDemux ==
    /\ InitBase
    /\ hs = [d \in Disp |-> IF d = "dmx" THEN {"F"} ELSE {}]
    /\ ea = 0 /\ eb = 0
    /\ dinput \in InputsOf(PlainKinds)
    /\ dloop \in BOOLEAN
    /\ demul = FALSE
    /\ NoRestamper

NextDemux ==
    \/ DmxStart
    \/ DmxGet
    \/ DmxReadErr
    \/ \E seekOk \in BOOLEAN : DmxReadEof(seekOk)
    \/ DmxReadPkt
    \/ DWaitAdd("dmx")
    \/ \E ok \in BOOLEAN : DLoop("dmx", "F", ok)
    \/ \E t \in tasks["dmx"] : TaskInvoke("dmx", t)
    \/ \E t \in tasks["dmx"] : TaskReturn("dmx", t)
    \/ \E t \in tasks["dmx"] : TaskDone("dmx", t)
    \/ DmxPut
    \/ DmxExit
    \/ StopNode

SpecDemux == InitDemux /\ [][NextDemux]_vars

\* ------------------------------------------------- Demuxer, rate emulation
\* by how much the clock is seen to have advanced between two steps: 10 ms
\* (less than any video packet lasts) or 40 ms (more than one frame)
TickSteps == {10000000, 40000000}

\* time passes while the demuxer runs
Tick(dt) ==
    /\ demul
    /\ dmxpc \notin {"created", "stopped"}
    /\ nticks < MaxTicks
    /\ now' = now + dt
    /\ nticks' = nticks + 1
    /\ UNCHANGED <<poolVars, dispVars, fwdVars, envVars, userVars, muxVars, wpVars,
                   connVars, errVars, mpktVars, raceVars, pauseVars, dmxpc, dpkt, dinput, dpos, dloop, demul,
                   loopFirstPkt, demitted, ddisp, dseeks, nextAt, dwake, dread, nodeCancelled>>

\* time passes up to the moment the timer of the running sleep fires
TickToWake ==
    /\ dmxpc = "sleep"
    /\ now < dwake
    /\ now' = dwake
    /\ UNCHANGED <<poolVars, dispVars, fwdVars, envVars, userVars, muxVars, wpVars,
                   connVars, errVars, mpktVars, raceVars, pauseVars, dmxpc, dpkt, dinput, dpos, dloop, demul,
                   loopFirstPkt, demitted, ddisp, dseeks, nextAt, dwake, dread, nticks,
                   nodeCancelled>>

\* a demuxer with rate emulation and without loop; no handler is connected,
\* dispatch returns at once
InitRate ==
    /\ InitBase
    /\ hs = [d \in Disp |-> {}]
    /\ ea = 0 /\ eb = 0
    /\ dinput \in InputsOf(PktKinds)
    /\ dloop = FALSE
    /\ demul = TRUE
    /\ NoRestamper

NextRate ==
    \/ DmxStart
    \/ DmxGet
    \/ DmxReadErr
    \/ \E seekOk \in BOOLEAN : DmxReadEof(seekOk)
    \/ DmxReadPkt
    \/ DmxWake
    \/ DmxPut
    \/ DmxExit
    \/ StopNode
    \/ Cancel
    \/ \E dt \in TickSteps : Tick(dt)
    \/ TickToWake

SpecRate == InitRate /\ [][NextRate]_vars

\* ------------------------------------------------- concurrent connectors
\* one goroutine calls Connect(h) on producer d while another calls
\* Disconnect(h) on it. First statement of either call: addHandler or
\* delHandler, each under d.m
RaceFirst(d, h, c) ==
    /\ rpc[<<d, h>>][c] = "idle"
    /\ hs' = IF c = "Connect" THEN HsAfterAdd(hs, d, h) ELSE HsAfterDel(hs, d, h)
    /\ rpc' = [rpc EXCEPT ![<<d, h>>][c] = "nodes"]
    /\ UNCHANGED <<poolVars, wg, dpc, dsnap, dsrc, ndisp, tasks, dhs, dfail, recv, rdata,
                   fwdVars, envVars, userVars, muxVars, wpVars, connVars, errVars, dmxVars,
                   mpktVars, pauseVars>>

\* second statement of either call: astiencoder.ConnectNodes or
\* DisconnectNodes records or removes the edge in both nodes; the call
\* returns
RaceSecond(d, h, c) ==
    /\ rpc[<<d, h>>][c] = "nodes"
    /\ children' = [children EXCEPT ![d] = IF c = "Connect" THEN @ \cup {h} ELSE @ \ {h}]
    /\ parents' = [parents EXCEPT ![h] = IF c = "Connect" THEN @ \cup {d} ELSE @ \ {d}]
    /\ rpc' = [rpc EXCEPT ![<<d, h>>][c] = "idle"]
    /\ UNCHANGED <<poolVars, dispVars, fwdVars, envVars, userVars, muxVars, wpVars, errVars,
                   dmxVars, mpktVars, pauseVars, cpc, clast>>

\* concurrent Connect and Disconnect calls on every edge
NextRace ==
    \/ \E e \in Edges, c \in ConnCalls : RaceFirst(e[1], e[2], c)
    \/ \E e \in Edges, c \in ConnCalls : RaceSecond(e[1], e[2], c)

SpecRace == Init /\ [][NextRace]_vars

\* ------------------------------------------------------- pause and resume
\* the node runs: started, not stopped
Running(n) ==
    IF n = "mux" THEN mpc \in {"header", "queue", "paused"}
    ELSE dmxpc \notin {"created", "stopped"} /\ ~NodeCtxDone

\* Pause() of a running node closes its gate
Pause(n) ==
    /\ Running(n)
    /\ ~paused[n]
    /\ paused' = [paused EXCEPT ![n] = TRUE]
    /\ since' = [since EXCEPT ![n] = 0]
    /\ UNCHANGED <<poolVars, dispVars, fwdVars, envVars, userVars, muxVars, wpVars,
                   connVars, errVars, dmxVars, mpktVars, raceVars>>

\* Resume() opens the gate again
Resume(n) ==
    /\ paused[n]
    /\ paused' = [paused EXCEPT ![n] = FALSE]
    /\ since' = [since EXCEPT ![n] = 0]
    /\ UNCHANGED <<poolVars, dispVars, fwdVars, envVars, userVars, muxVars, wpVars,
                   connVars, errVars, dmxVars, mpktVars, raceVars>>

\* m.HandlePause() returns in the muxer's consumer, the node resumed
MuxPauseOver ==
    /\ mpc = "paused"
    /\ ~HandlePauseBlocks("mux", FALSE)
    /\ mpc' = "queue"
    /\ UNCHANGED <<poolVars, dispVars, fwdVars, envVars, userVars, wpVars, auxVars,
                   mruns, onceDone, hdrRet, headers, mq, npkts, written, trailers>>

\* a workflow of one node that is paused and resumed while it runs: a muxer,
\* the demuxer not used, or a demuxer without loop, rate emulation and
\* handlers, with some input
InitPause ==
    /\ InitBase
    /\ hs = [d \in Disp |-> {}]
    /\ ea = 0 /\ eb = 0
    /\ dinput \in InputsOf(PlainKinds) \cup {<<>>}
    /\ dloop = FALSE
    /\ demul = FALSE
    /\ NoRestamper

NextPause ==
    \/ NoDemuxer /\ Pause("mux")
    \/ NoDemuxer /\ Resume("mux")
    \/ NoDemuxer /\ MuxStart
    \/ NoDemuxer /\ \E ok \in BOOLEAN : MuxHeader(ok)
    \/ NoDemuxer /\ \E o \in DOMAIN MuxStreams : MuxHandlePkt(o)
    \/ NoDemuxer /\ \E ok \in BOOLEAN : MuxWrite(ok, 0)
    \/ NoDemuxer /\ MuxPauseOver
    \/ NoDemuxer /\ MuxStop
    \/ ~NoDemuxer /\ Pause("dmx")
    \/ ~NoDemuxer /\ Resume("dmx")
    \/ ~NoDemuxer /\ DmxStart
    \/ ~NoDemuxer /\ DmxGet
    \/ ~NoDemuxer /\ DmxReadErr
    \/ ~NoDemuxer /\ \E seekOk \in BOOLEAN : DmxReadEof(seekOk)
    \/ ~NoDemuxer /\ DmxReadPkt
    \/ ~NoDemuxer /\ DmxPut
    \/ ~NoDemuxer /\ DmxPauseOver
    \/ ~NoDemuxer /\ DmxExit
    \/ ~NoDemuxer /\ StopNode

SpecPause == InitPause /\ [][NextPause]_vars

\* ------------------------------------------------------------ properties
\* how often handler h was handed the buffer of dispatch call s
Count(d, h, s) == Cardinality({i \in 1..Len(recv[d][h]) : recv[d][h][i] = s})

\* the handlers of the running or last call whose goroutine was spawned
Spawned(d) == dhs[d] \ dfail[d]

\* the running or last dispatch call and everything it spawned is over
CallOver(d) == dpc[d] \in {"ret", "idle"} /\ tasks[d] = {} /\ ndisp[d] > 0

\* C1 as stated: what each handler has been handed so far is a prefix
\* b1, b2, ..., bk of the dispatch order
C1_RecvIsPrefix ==
    \A h \in Sinks : \A i \in 1..Len(recv["fwd"][h]) : recv["fwd"][h][i] = i

\* C1 as amended: what each handler has been handed so far is a subsequence
\* of the dispatch order: buffers of dispatch calls made, in dispatch order,
\* none of them twice
C1_RecvIsSubsequence ==
    \A h \in Sinks :
        /\ \A i \in 1..Len(recv["fwd"][h]) : recv["fwd"][h][i] \in 1..ndisp["fwd"]
        /\ \A i, j \in 1..Len(recv["fwd"][h]) :
               i < j => recv["fwd"][h][i] < recv["fwd"][h][j]

\* C1's case: one handler was handed b1 then b2, the other missed b1
C1_Witness ==
    \E h, g \in Sinks : recv["fwd"][h] = <<1, 2>> /\ recv["fwd"][g] = <<2>>

\* C2: dispatch barrier. The unfinished goroutines all belong to one
\* dispatch call, and while a call acquires its copies and spawns, none of
\* an earlier call is left (put and wg.Done not yet run)
C2_Barrier ==
    /\ \A t, u \in tasks["fwd"] : t.seq = u.seq
    /\ dpc["fwd"] = "loop" => \A t \in tasks["fwd"] : t.seq = ndisp["fwd"]

\* C2's case: in a second dispatch call, two handlers run at the same time
C2_Witness ==
    \E t, u \in tasks["fwd"] :
        /\ t.h # u.h
        /\ t.st = "handling" /\ u.st = "handling"
        /\ t.seq = 2 /\ u.seq = 2

\* C3 as stated: when dispatch returns, no handler invocation for its own
\* buffer is still to start or running
C3_ReturnsAfterOwnHandlers ==
    dpc["fwd"] = "ret" => \A t \in tasks["fwd"] : t.seq # ndisp["fwd"]

\* C3 as amended: when a dispatch call with a non-empty snapshot returns,
\* every goroutine of the earlier calls has ended, and for each handler of
\* its snapshot whose copy succeeded a goroutine was spawned (it runs, or
\* has already handed the buffer over)
C3_ReturnsAfterEarlierHandlers ==
    (dpc["fwd"] = "ret" /\ dhs["fwd"] # {}) =>
        /\ \A t \in tasks["fwd"] : t.seq = ndisp["fwd"]
        /\ \A h \in Spawned("fwd") :
               \/ \E t \in tasks["fwd"] : t.h = h /\ t.seq = ndisp["fwd"]
               \/ Count("fwd", h, ndisp["fwd"]) = 1

\* C3's case: the second dispatch call has returned while a handler is
\* still busy with its buffer
C3_Witness ==
    /\ dpc["fwd"] = "ret"
    /\ ndisp["fwd"] = 2
    /\ \E t \in tasks["fwd"] : t.seq = 2 /\ t.st = "handling"

\* C4 as stated: once a dispatch call and its goroutines are over, every
\* handler of its snapshot was invoked exactly once for its buffer
C4_AllInvokedOnce ==
    CallOver("fwd") => \A h \in dhs["fwd"] : Count("fwd", h, ndisp["fwd"]) = 1

\* the copies and the producer's buffer that are in use by the running call
CopiesInUse(d) == {t \in tasks[d] : t.st \in {"spawned", "handling"}}

\* C4 as amended: no handler is invoked twice for a buffer; once a call and
\* its goroutines are over, exactly the handlers of its snapshot whose copy
\* succeeded were invoked once (a handler whose copy failed is skipped);
\* the copies in use are distinct pool buffers, none the producer's
C4_SpawnedInvokedOnce ==
    /\ \A h \in Sinks : \A s \in 1..ndisp["fwd"] : Count("fwd", h, s) <= 1
    /\ CallOver("fwd") =>
           \A h \in Sinks : Count("fwd", h, ndisp["fwd"]) =
                                IF h \in Spawned("fwd") THEN 1 ELSE 0
    /\ \A t, u \in CopiesInUse("fwd") : t # u => t.buf # u.buf
    /\ fpc = "disp" => \A t \in CopiesInUse("fwd") : t.buf # dsrc["fwd"]

\* C4's case: a call with both handlers in its snapshot is over, one copy
\* failed and the other handler was invoked
C4_Witness ==
    /\ CallOver("fwd")
    /\ dhs["fwd"] = Sinks
    /\ \E h \in Sinks : dfail["fwd"] = {h}
    /\ \E h \in Sinks : Count("fwd", h, ndisp["fwd"]) = 1

\* nothing is in flight: no queued closure, no dispatch call, no goroutine
Quiescent ==
    /\ fs = <<>>
    /\ \A d \in Disp : dpc[d] = "idle" /\ tasks[d] = {}

\* C5 as stated: a buffer is put back exactly once per get on every exit
\* path, so no buffer is out of its pool once nothing is in flight
C5_EveryGetIsPut ==
    /\ \A p \in Disp : \A b \in 1..Len(held[p]) : held[p][b] \in {0, 1}
    /\ Quiescent => \A p \in Disp : \A b \in 1..Len(held[p]) : held[p][b] = 0

\* the buffers of pool p the direct users hold, one entry per holder
UserHeld(p) == {x \in Users \X (1..poolAlloc[p]) : <<p, x[2]>> \in own[x[1]]}

\* C6: pool conservation. Every buffer ever allocated is either held by
\* exactly one caller or once in the free list: allocations = held + free,
\* the free list has no duplicate and no held buffer, no buffer has two holders
C6_PoolConservation ==
    \A p \in Disp :
        /\ poolAlloc[p] = Cardinality(UserHeld(p)) + Len(poolP[p])
        /\ \A i, j \in 1..Len(poolP[p]) : i # j => poolP[p][i] # poolP[p][j]
        /\ \A i \in 1..Len(poolP[p]) : \A x \in UserHeld(p) : poolP[p][i] # x[2]
        /\ \A x, y \in UserHeld(p) : x[2] = y[2] => x = y
        /\ \A i \in 1..Len(poolP[p]) : poolP[p][i] \in 1..poolAlloc[p]

\* C6's case: after get() recycled a buffer, both callers hold a buffer of
\* the pool while another of its buffers is free
C6_Witness ==
    \E p \in Disp :
        /\ \A u \in Users : \E b \in 1..poolAlloc[p] : <<p, b>> \in own[u]
        /\ reused[p]
        /\ poolP[p] # <<>>

\* C7: get() adds one free callback per allocation and none for a recycled
\* buffer: callbacks = allocations, one per buffer, and after teardown each
\* allocated buffer was freed exactly once
C7_FreedOnce ==
    /\ \A p \in Disp :
           Cardinality({i \in 1..Len(closerCbs) : closerCbs[i].pool = p}) = poolAlloc[p]
    /\ \A p \in Disp : \A b \in 1..poolAlloc[p] : FreeCount(p, b) = 1
    /\ closed => \A p \in Disp : \A b \in 1..poolAlloc[p] : freed[p][b] = 1

\* C7's case: torn down after a buffer was recycled by get()
C7_Witness ==
    closed /\ \E p \in Disp : poolAlloc[p] >= 2 /\ reused[p]

\* C8 as stated: a muxer whose header was written and whose Start body ran
\* K >= 1 times has, once torn down, written the header once and the
\* trailer once
C8_OneHeaderOneTrailer ==
    (closed /\ mruns >= 1 /\ hdrRet = 0) => headers = 1 /\ trailers = 1

\* no buffer of any pool is out of its pool
NoLiveBuffers == \A p \in Disp : \A b \in 1..Len(held[p]) : held[p][b] = 0

\* C9 as stated: after the root context is cancelled, eventually the
\* forwarder's body has returned and every pool has zero live buffers
C9_CancelDrains == rootCancelled ~> (fpc = "stopped" /\ NoLiveBuffers)

\* C10: WorkflowPool lookup. The map holds, under each name, the workflow
\* whose AddWorkflow took effect last (an add replaces the entry of its name
\* and no other, a lookup changes nothing); Workflow(name) returned that
\* workflow and a nil error, or no workflow and ErrWorkflowNotFound exactly
\* when no AddWorkflow under that name had taken effect; Workflows()
\* returned the current entries; the mutex has one holder at most
C10_LookupLastAdded ==
    /\ \A n \in Names : ws[n] = lastAdded[n]
    /\ \A n \in Names : ws[n] # 0 => wnames[ws[n]] = n
    /\ \A c \in Callers : wret[c].op = "get" =>
           /\ wret[c].w = wret[c].last
           /\ wret[c].err = "ErrWorkflowNotFound" <=> wret[c].last = 0
           /\ wret[c].err \in {"nil", "ErrWorkflowNotFound"}
           /\ wret[c].w # 0 => wnames[wret[c].w] = wret[c].name
    /\ \A c \in Callers : wret[c].op = "list" => wret[c].list = wret[c].all
    /\ \A c, e \in Callers : (wpc[c].st = "locked" /\ wpc[e].st = "locked") => c = e

\* C10's case: after two workflows were added under name "a", one caller
\* was returned the second one and another was told "b" is not found
C10_Witness ==
    /\ wnames = <<"a", "a">>
    /\ lastAdded["a"] = 2
    /\ \E c, e \in Callers :
           /\ wret[c] = [op |-> "get", name |-> "a", w |-> 2, err |-> "nil",
                         list |-> {}, last |-> 2, all |-> {}]
           /\ wret[e].op = "get" /\ wret[e].name = "b"
           /\ wret[e].err = "ErrWorkflowNotFound"

C12_IsIffSameCode == isDone => (isRes <=> ea = eb)

\* C12's case: EPIPE is not EOF
C12_Witness == isDone /\ ea = -32 /\ eb = -541478725 /\ ~isRes

KnownPkts(in) ==
    SelectSeq([i \in 1..Len(in) |-> i], LAMBDA i : in[i].s \in KnownStreams)
\* the packets dispatched so far, in dispatch order
DispatchedPkts == [i \in 1..Len(ddisp) |-> ddisp[i].k]

\* the demuxer of SpecDemux under weak fairness: every goroutine that can
\* take a step eventually takes one
SpecDemuxFair == SpecDemux /\ WF_vars(NextDemux)

\* what holds of readFrame's end-of-input and error handling in every state
C15_StopRule ==
    \* stop is set by an emitted error or by end-of-input without loop
    /\ dmxpc = "putstop" => (demitted # <<>> \/ (~dloop /\ dpos = Len(dinput)))
    \* an emitted error stops the loop: nothing is read after it
    /\ demitted # <<>> => (Len(demitted) = 1 /\ dmxpc \in {"putstop", "exit", "stopped"})
    \* only loop mode with a first-packet record seeks, to that record
    /\ dseeks > 0 => (dloop /\ loopFirstPkt # 0)
    /\ ~dloop => "seek" \notin {demitted[i] : i \in 1..Len(demitted)}
    \* loop disabled, no read error, no cancellation: the body ended after
    \* each packet of a known stream was dispatched once, in input order
    /\ (dmxpc = "stopped" /\ ~dloop /\ demitted = <<>> /\ ~NodeCtxDone)
          => DispatchedPkts = KnownPkts(dinput)

\* C15: on end-of-input without loop the read loop stops and emits nothing;
\* with loop and a first-packet record it seeks to the record and goes on,
\* stopping only when the seek fails; any other read error is emitted and
\* stops the loop. With loop disabled and a finite input the body
\* dispatches each packet of a known stream once and then terminates.
C15_EndOfInput == []C15_StopRule /\ (~dloop => <>(dmxpc = "stopped"))

\* the body ended at end-of-input, loop disabled, nothing emitted, after
\* dispatching two packets of known streams
C15_Witness ==
    /\ dmxpc = "stopped" /\ ~dloop /\ demitted = <<>> /\ ~NodeCtxDone
    /\ dpos = Len(dinput)
    /\ Len(ddisp) = 2

\* loop enabled: a seek back to the recorded first packet made the demuxer
\* dispatch that packet a second time
C15_WitnessLoop ==
    /\ dloop /\ dseeks = 1 /\ demitted = <<>>
    /\ \E i, j \in 1..Len(ddisp) : i < j /\ ddisp[i].k = loopFirstPkt /\ ddisp[j].k = loopFirstPkt

\* C16: every long-lived wait of a node is rooted in the node's child
\* context: once the demuxer alone was stopped, its rate-emulation sleep
\* is over, whether or not the deadline was reached
C16_SleepRootedInChild == (dmxpc = "sleep" /\ nodeCancelled) => ENABLED DmxWake

\* the demuxer was stopped, its parent was not, and the body still sleeps
\* towards a deadline that is ahead
C16_SleepsOn == dmxpc = "sleep" /\ nodeCancelled /\ ~rootCancelled /\ now < dwake

\* the body of the demuxer returned and no goroutine of its dispatcher is left
C17_NoTaskLeft == dmxpc = "stopped" => (tasks["dmx"] = {} /\ wg["dmx"] = 0)

C17_OnlyFailedCopiesOut ==
    dmxpc = "stopped" =>
        \A b \in 1..Len(held["dmx"]) : held["dmx"][b] = 0 \/ bufRef["dmx"][b] = 0

\* what a packet's emulated duration is in ns, worked out by hand: 1/30 s
\* and 2/30 s for the video packets, 1024/48000 s for an audio packet,
\* (1024 - 512)/48000 s for one that skips 512 samples, each rounded to
\* the nearest ns
ExpectedNs(pk) ==
    IF pk.s = "v" THEN (IF pk.dur = 1 THEN 33333333 ELSE 66666667)
    ELSE IF pk.skip = 0 THEN 21333333 ELSE 10666667

\* the dispatches before the i-th that were of the same stream
EarlierOfStream(i) == {j \in 1..(i - 1) : dinput[ddisp[j].k].s = dinput[ddisp[i].k].s}

SetMax(S) == CHOOSE x \in S : \A y \in S : y <= x

\* C20: with emulation on, per stream the emit deadline of the first packet
\* is the time it is read and the deadline of every later packet is the
\* previous packet's deadline plus that packet's emulated duration in ns;
\* no packet is dispatched before its deadline unless the context is
\* cancelled, and a packet already past its deadline is dispatched without
\* sleeping
C20_Schedule ==
    /\ \A i \in 1..Len(ddisp) :
        LET e == ddisp[i]
            earlier == EarlierOfStream(i)
        IN
        /\ IF earlier = {}
             THEN e.dl = e.rd
             ELSE LET p == ddisp[SetMax(earlier)] IN e.dl = p.dl + ExpectedNs(dinput[p.k])
        /\ e.at >= e.dl \/ e.cx
        /\ e.rd >= e.dl => e.at = e.rd
    /\ dmxpc = "sleep" => dread < dwake

\* a second packet of an audio stream was read before its deadline, slept
\* and was dispatched at the deadline, which the skipped samples of the
\* packet before it brought forward
C20_Witness ==
    \E i \in 1..Len(ddisp) :
        /\ EarlierOfStream(i) # {}
        /\ dinput[ddisp[SetMax(EarlierOfStream(i))].k].skip > 0
        /\ ddisp[i].rd < ddisp[i].dl
        /\ ddisp[i].at = ddisp[i].dl
        /\ ~ddisp[i].cx

\* a packet that was read after its deadline and dispatched at once
C20_WitnessLate ==
    \E i \in 1..Len(ddisp) :
        EarlierOfStream(i) # {} /\ ddisp[i].rd > ddisp[i].dl /\ ddisp[i].at = ddisp[i].rd

\* the timestamps the muxer's streams are expected to see, worked out by
\* hand: 1000 k at 1/1000 is 90000 k at 1/90000; 1000 k at 1/48000 is
\* 20.83 k at 1/1000, to the nearest integer 21, 42, 63 (62.5, away from
\* zero), 83, 104
ExpectedTs(o, ts) ==
    IF o = "o1" THEN 90 * ts ELSE <<21, 42, 63, 83, 104>>[ts \div 1000]

\* the packets the consumer has taken off the queue
Handled == {mlog[i].n : i \in 1..Len(mlog)}

\* C18: HandlePkt leaves the packet's timestamps and stream index as they
\* are at enqueue time; each enqueued packet is rescaled from the source
\* time base to the target stream's and given the target stream's index
\* once, at dequeue time, before the restamper (if any) and the write, so
\* that 1000 and 2000 at 1/1000 are written as 90000 and 180000 to a
\* 1/90000 stream; a failed write is emitted and the consumer goes on
C18_RescaleAtDequeue ==
    \* a queued packet is as it was handed over
    /\ \A i \in 1..Len(mq) : mpkts[mq[i]] = mpayload[mq[i]].in /\ mq[i] \notin Handled
    \* a handled packet was handled once, in queue order
    /\ \A i, j \in 1..Len(mlog) : i < j => mlog[i].n < mlog[j].n
    /\ Len(mlog) + Len(mq) = npkts
    /\ \A i \in 1..Len(mlog) :
        LET e == mlog[i]
            pl == mpayload[e.n]
        IN
        \* what the restamper and the write were given
        /\ e.pre.pts = ExpectedTs(pl.o, pl.in.pts)
        /\ e.pre.dts = ExpectedTs(pl.o, pl.in.dts)
        /\ e.pre.idx = MuxStreams[pl.o].idx
        \* without restamper that is what is written
        /\ ~mrestamp => e.pkt = e.pre
        /\ mrestamp => e.pkt.idx = e.pre.idx
    \* every failed write was emitted, every other packet was written
    /\ merrs = Cardinality({i \in 1..Len(mlog) : ~mlog[i].ok})
    /\ Len(written) = Cardinality({i \in 1..Len(mlog) : mlog[i].ok})

\* without restamper, after a failed write the consumer wrote the packets
\* 1000 and 2000 of the 1/1000 source as 90000 and 180000
C18_Witness ==
    /\ ~mrestamp
    /\ \E i, j, k \in 1..Len(mlog) :
        /\ i < j /\ j < k
        /\ ~mlog[i].ok /\ mlog[j].ok /\ mlog[k].ok
        /\ mpayload[mlog[j].n].o = "o1" /\ mpayload[mlog[k].n].o = "o1"
        /\ mlog[j].pkt.pts = 90000 /\ mlog[k].pkt.pts = 180000
        /\ mlog[j].pkt.idx = 0

\* a packet of the 1/48000 source was written to the 1/1000 stream with a
\* rounded timestamp
C18_WitnessRounded ==
    \E i \in 1..Len(mlog) : mlog[i].ok /\ mlog[i].pkt.pts = 21 /\ mlog[i].pkt.idx = 1

\* the goroutines of the running dispatch call that still hold their copy
LiveCopies(d) == {t \in tasks[d] : t.seq = ndisp[d] /\ t.st \in {"spawned", "handling"}}

\* C19: the forwarder preserves producer order end to end. The frames
\* handed to HandleFrame wait in the queue in producer order, each in a
\* buffer of its own; every handler downstream is handed frames in
\* producer order, none twice; and while dispatch takes the per-handler
\* copies the forwarder's copy is not released: every copy taken references
\* the frame the forwarder's copy holds
C19_ProducerOrder ==
    /\ \A i, j \in 1..Len(fs) :
          i < j => /\ fs[i].fm # fs[j].fm
                   /\ bufRef["fwd"][fs[i].fm] < bufRef["fwd"][fs[j].fm]
    /\ \A h \in Sinks :
          /\ \A i \in 1..Len(rdata["fwd"][h]) : rdata["fwd"][h][i] \in 1..nframes
          /\ \A i, j \in 1..Len(rdata["fwd"][h]) :
                i < j => rdata["fwd"][h][i] < rdata["fwd"][h][j]
    /\ fpc = "disp" =>
          /\ dsrc["fwd"] = Head(fs).fm
          /\ held["fwd"][dsrc["fwd"]] = 1
          /\ bufRef["fwd"][dsrc["fwd"]] \in 1..nframes
          /\ \A t \in LiveCopies("fwd") : bufRef["fwd"][t.buf] = bufRef["fwd"][dsrc["fwd"]]

\* both handlers were handed frame 1 and then frame 2, and the forwarder's
\* copy of frame 2 is still held while its dispatch is under way
C19_Witness ==
    /\ \A h \in Sinks : rdata["fwd"][h] = <<1, 2>>
    /\ fpc = "disp"
    /\ bufRef["fwd"][dsrc["fwd"]] = 2

\* no Connect or Disconnect call is under way
AllCallsReturned == \A e \in Edges : \A c \in ConnCalls : rpc[e][c] = "idle"

\* C22: for any interleaving of concurrent Connect(h) and Disconnect(h)
\* calls on a producer, once all calls have returned h is registered in the
\* producer's dispatcher if and only if the edge is recorded in the graph
C22_RegistrationMatchesEdge ==
    AllCallsReturned => \A e \in Edges : e[2] \in hs[e[1]] <=> e[2] \in children[e[1]]

\* all calls have returned, the graph records the edge from the forwarder
\* to S1 and the forwarder's dispatcher does not know S1
C22_EdgeWithoutHandler ==
    /\ AllCallsReturned
    /\ "S1" \in children["fwd"] /\ "fwd" \in parents["S1"]
    /\ "S1" \notin hs["fwd"]


\* C21: while a node's pause gate is closed, the muxer's consumer starts at
\* most one more interleaved write and the demuxer's loop dispatches at most
\* one more packet
C21_OneMoreItem == \A n \in PausableNodes : paused[n] => since[n] <= 1

\* the muxer's consumer waits in HandlePause after the one write it started
\* with the gate closed, a packet still queued
C21_WitnessMuxer == paused["mux"] /\ mpc = "paused" /\ since["mux"] = 1 /\ mq # <<>>

\* the demuxer's loop waits in HandlePause after the one packet it dispatched
\* with the gate closed, input still unread
C21_WitnessDemuxer ==
    paused["dmx"] /\ dmxpc = "pause" /\ since["dmx"] = 1 /\ dpos < Len(dinput)

====
